---- MODULE Spec2Model ----
(***************************************************************************)
(* Keeper analysis (lol-keepers): the join-and-derive transform of         *)
(* src/app.py and src/api/index.py, the web handlers that serve it, the    *)
(* top-5 keeper recommendation selector and the CLI keeper-status mutator. *)
(*                                                                         *)
(* Text (player names, position ranks, typed input) is a sequence of       *)
(* one-character strings, so that trimming, lower-casing, prefix and       *)
(* substring tests are computed and not assumed.  A nullable value         *)
(* (None / NaN) is a sequence of length 0 or 1.                            *)
(***************************************************************************)
EXTENDS Integers, Sequences, FiniteSets, TLC

VARIABLES draft_results, fantasy_pros, resp, wrote, procs

vars == <<draft_results, fantasy_pros, resp, wrote, procs>>

-----------------------------------------------------------------------------
(* Bounds of the model and constants of the program *)

MaxPicks == 3
MaxRows == 2
MaxSel == 6

LeagueSize == 12
WaiverKeeperRound == 5
TopN == 5

-----------------------------------------------------------------------------
(* Nullable values *)

None == <<>>
Some(x) == <<x>>
notna(o) == o # None
Val(o) == o[1]

-----------------------------------------------------------------------------
(* Text *)

RECURSIVE lstrip(_)
lstrip(s) == IF s = <<>> THEN s
             ELSE IF Head(s) = " " THEN lstrip(Tail(s)) ELSE s

RECURSIVE rstrip(_)
rstrip(s) == IF s = <<>> THEN s
             ELSE IF s[Len(s)] = " " THEN rstrip(SubSeq(s, 1, Len(s) - 1)) ELSE s

strip(s) == rstrip(lstrip(s))

lower_char(c) ==
    CASE c = "A" -> "a"
      [] c = "B" -> "b"
      [] c = "C" -> "c"
      [] c = "D" -> "d"
      [] c = "E" -> "e"
      [] c = "L" -> "l"
      [] c = "O" -> "o"
      [] c = "Y" -> "y"
      [] c = "Z" -> "z"
      [] OTHER -> c

lower(s) == [i \in 1..Len(s) |-> lower_char(s[i])]

startswith(s, p) == Len(p) <= Len(s) /\ SubSeq(s, 1, Len(p)) = p

\* Python's `sub in s` on strings
contains(sub, s) ==
    \E i \in 0..(Len(s) - Len(sub)) : SubSeq(s, i + 1, i + Len(sub)) = sub

\* str(x) of a nullable text cell: NaN prints as "nan"
astype_str(o) == IF notna(o) THEN Val(o) ELSE <<"n", "a", "n">>

-----------------------------------------------------------------------------
(* pandas primitives used by both entry points *)

\* DataFrame: the rows in order, and the dtype of the 2025_keeper_round column
\* (object when every value of the column was None, float64 with NaN otherwise).
\* is_none marks Python's None returned in place of a DataFrame.
DataFrame(rows, dtype) ==
    [is_none |-> FALSE, rows |-> rows, keeper_round_dtype |-> dtype]
EmptyDataFrame == DataFrame(<<>>, "object")
NoDataFrame == [is_none |-> TRUE, rows |-> <<>>, keeper_round_dtype |-> "object"]

df_empty(df) == df.rows = <<>>

with_ranking(l, rk, pos) ==
    l @@ [draft_rank_2025 |-> rk, position_rank_2025 |-> pos]

\* rows of a left join for one left row: one per matching right row, in the
\* right frame's order, or a single row with NaN ranking fields
merge_one(l, right) ==
    LET m == SelectSeq(right, LAMBDA r : r.player_name_clean = l.player_name_clean)
    IN  IF m = <<>> THEN << with_ranking(l, None, None) >>
        ELSE [i \in 1..Len(m) |-> with_ranking(l, m[i].RK, m[i].POS)]

RECURSIVE pd_merge_left(_, _)
pd_merge_left(left, right) ==
    IF left = <<>> THEN <<>>
    ELSE merge_one(Head(left), right) \o pd_merge_left(Tail(left), right)

\* ascending order of a nullable key, NaN last
key_le(a, b) == IF ~notna(a) THEN ~notna(b)
                ELSE IF ~notna(b) THEN TRUE
                ELSE Val(a) <= Val(b)

RECURSIVE insert_sorted(_, _)
insert_sorted(x, s) ==
    IF s = <<>> THEN <<x>>
    ELSE IF key_le(Head(s).overall_pick, x.overall_pick)
         THEN <<Head(s)>> \o insert_sorted(x, Tail(s))
         ELSE <<x>> \o s

RECURSIVE sort_rows(_, _)
sort_rows(rows, acc) ==
    IF rows = <<>> THEN acc
    ELSE sort_rows(Tail(rows), insert_sorted(Head(rows), acc))

sort_values_unsorted(rows) == rows
\* sort_values('2024_overall_pick'): ascending, NaN last; ties keep their order
\* (numpy's default sort is an insertion sort on arrays this short)
sort_values(rows) == sort_rows(rows, <<>>)

-----------------------------------------------------------------------------
(* create_keeper_analysis_dataframe, src/app.py *)

team_to_manager_get_no_default(teams, name, default) ==
    IF \E i \in 1..Len(teams) : teams[i].team_name = name
    THEN (CHOOSE t \in { teams[i] : i \in 1..Len(teams) } : t.team_name = name).manager
    ELSE "None"
\* team_to_manager.get(name, name): the last team of that name wins
RECURSIVE team_to_manager_get(_, _, _)
team_to_manager_get(teams, name, default) ==
    IF teams = <<>> THEN default
    ELSE LET t == teams[Len(teams)]
         IN  IF t.team_name = name THEN t.manager
             ELSE team_to_manager_get(SubSeq(teams, 1, Len(teams) - 1), name, default)

\* pick.get(key, default) of an optional key
get_default(o, default) == IF notna(o) THEN Val(o) ELSE default

draft_record(teams, pick) ==
    [player_name          |-> pick.player_name,
     manager              |-> team_to_manager_get(teams, pick.drafting_team,
                                                  pick.drafting_team),
     draft_round          |-> pick.round,
     overall_pick         |-> pick.overall_pick,
     keeper_status        |-> pick.keeper_status,
     keeper_eligible_2025 |-> get_default(pick.keeper_eligible_2025, TRUE),
     waiver_pickup        |-> get_default(pick.waiver_pickup, FALSE)]

draft_records(draft_data) ==
    [i \in 1..Len(draft_data.draft_picks) |->
        draft_record(draft_data.teams, draft_data.draft_picks[i])]

\* df['player_name_clean'] = df['player_name'].str.strip()
clean_draft(rows) ==
    [i \in 1..Len(rows) |-> rows[i] @@ [player_name_clean |-> strip(rows[i].player_name)]]

clean_fantasy(rows) ==
    [i \in 1..Len(rows) |->
        [player_name_clean |-> strip(rows[i].PLAYER_NAME),
         RK |-> rows[i].RK, POS |-> rows[i].POS]]

ceil_div_floor(x, n) == x \div n
\* math.ceil(x / n) of a positive rank
ceil_div(x, n) == IF x % n = 0 THEN x \div n ELSE (x \div n) + 1

\* lambda x: math.ceil(x / 12) if pd.notna(x) else None
projected_draft_round(x) ==
    IF notna(x) THEN Some(ceil_div(Val(x), LeagueSize)) ELSE None

max2(a, b) == IF a >= b THEN a ELSE b

calculate_keeper_round_draft_first(row) ==
    IF notna(row.draft_round) THEN Some(max2(1, Val(row.draft_round) - 1))
    ELSE IF row.waiver_pickup THEN Some(WaiverKeeperRound)
    ELSE None
calculate_keeper_round(row) ==
    IF row.waiver_pickup THEN Some(WaiverKeeperRound)
    ELSE IF notna(row.draft_round) THEN Some(max2(1, Val(row.draft_round) - 1))
    ELSE None

\* the final columns of one merged row
keeper_record(m, proj, kr) ==
    [player_name          |-> m.player_name,
     manager              |-> m.manager,
     draft_round          |-> m.draft_round,
     overall_pick         |-> m.overall_pick,
     keeper_status        |-> m.keeper_status,
     keeper_eligible_2025 |-> m.keeper_eligible_2025,
     draft_rank_2025      |-> m.draft_rank_2025,
     position_rank_2025   |-> m.position_rank_2025,
     projected_round_2025 |-> proj,
     keeper_round_2025    |-> kr,
     waiver_pickup        |-> m.waiver_pickup]

derive(merged) ==
    [i \in 1..Len(merged) |->
        keeper_record(merged[i],
                      projected_draft_round(merged[i].draft_rank_2025),
                      calculate_keeper_round(merged[i]))]

\* dtype pandas infers for a column built from the values of `col`
infer_dtype(rows) ==
    IF \A i \in 1..Len(rows) : ~notna(rows[i].keeper_round_2025)
    THEN "object" ELSE "float64"

\* .astype(str).str.startswith(('K', 'DST'))
is_kicker_or_defense(r) ==
    \/ startswith(astype_str(r.position_rank_2025), <<"K">>)
    \/ startswith(astype_str(r.position_rank_2025), <<"D", "S", "T">>)

filter_positions(rows) == SelectSeq(rows, LAMBDA r : ~is_kicker_or_defense(r))

filter_ranked_keep_all(rows) == rows
filter_ranked(rows) == SelectSeq(rows, LAMBDA r : notna(r.draft_rank_2025))

\* what the try block raises on: an unreadable file, an undecodable or
\* incomplete structure, or an empty list of picks (no 'player_name' column)
sources_raise(draft_data, fantasy) ==
    \/ ~draft_data.exists
    \/ ~draft_data.wellformed
    \/ ~fantasy.exists
    \/ ~fantasy.wellformed
    \/ draft_data.draft_picks = <<>>

analysis_rows(draft_data, fantasy) ==
    LET merged  == pd_merge_left(clean_draft(draft_records(draft_data)),
                                 clean_fantasy(fantasy.rows))
        derived == derive(merged)
    IN  DataFrame(sort_values(filter_ranked(filter_positions(derived))),
                  infer_dtype(derived))

create_keeper_analysis_dataframe_partial(draft_data, fantasy) ==
    IF ~draft_data.exists \/ ~draft_data.wellformed \/ draft_data.draft_picks = <<>>
    THEN NoDataFrame
    ELSE analysis_rows(draft_data, fantasy)
create_keeper_analysis_dataframe(draft_data, fantasy) ==
    IF sources_raise(draft_data, fantasy) THEN NoDataFrame
    ELSE analysis_rows(draft_data, fantasy)

-----------------------------------------------------------------------------
(* create_keeper_analysis_dataframe, src/api/index.py *)

projected_draft_round_api(x) ==
    IF notna(x) THEN Some(ceil_div(Val(x), LeagueSize)) ELSE None

calculate_keeper_round_local_unclamped(row) ==
    IF row.waiver_pickup THEN Some(WaiverKeeperRound)
    ELSE IF notna(row.draft_round) THEN Some(Val(row.draft_round) - 1)
    ELSE None
calculate_keeper_round_local(row) ==
    IF row.waiver_pickup THEN Some(WaiverKeeperRound)
    ELSE IF notna(row.draft_round) THEN Some(max2(1, Val(row.draft_round) - 1))
    ELSE None

derive_api(merged) ==
    [i \in 1..Len(merged) |->
        keeper_record(merged[i],
                      projected_draft_round_api(merged[i].draft_rank_2025),
                      calculate_keeper_round_local(merged[i]))]

analysis_rows_api(draft_data, fantasy) ==
    LET merged  == pd_merge_left(clean_draft(draft_records(draft_data)),
                                 clean_fantasy(fantasy.rows))
        derived == derive_api(merged)
    IN  DataFrame(sort_values(filter_ranked(filter_positions(derived))),
                  infer_dtype(derived))

\* on any exception the web transform returns pd.DataFrame()
create_keeper_analysis_dataframe_api(draft_data, fantasy) ==
    IF sources_raise(draft_data, fantasy) THEN EmptyDataFrame
    ELSE analysis_rows_api(draft_data, fantasy)

-----------------------------------------------------------------------------
(* Responses *)

Response(op, view, status, code, players, managers) ==
    [op |-> op, view |-> view, status |-> status, code |-> code,
     players |-> players, managers |-> managers]

NoResponse == Response("none", "none", "none", 0, <<>>, {})

\* df['2024_manager'].unique(), as a set
unique_managers(df) == { df.rows[i].manager : i \in 1..Len(df.rows) }

-----------------------------------------------------------------------------
(* Keeper recommendation selector, src/api/index.py *)

manager_rows(df, manager) ==
    SelectSeq(df.rows, LAMBDA r : r.manager = manager /\ r.keeper_eligible_2025 = TRUE)

\* projected round - keeper round; NaN when the keeper round is NaN
keeper_value_of(r) ==
    IF notna(r.projected_round_2025) /\ notna(r.keeper_round_2025)
    THEN Some(Val(r.projected_round_2025) - Val(r.keeper_round_2025))
    ELSE None

with_keeper_value(rows) ==
    [i \in 1..Len(rows) |-> rows[i] @@ [keeper_value |-> keeper_value_of(rows[i])]]

RECURSIVE insert_desc(_, _)
insert_desc(x, s) ==
    IF s = <<>> THEN <<x>>
    ELSE IF Val(Head(s).keeper_value) >= Val(x.keeper_value)
         THEN <<Head(s)>> \o insert_desc(x, Tail(s))
         ELSE <<x>> \o s

RECURSIVE sort_desc(_, _)
sort_desc(rows, acc) ==
    IF rows = <<>> THEN acc
    ELSE sort_desc(Tail(rows), insert_desc(Head(rows), acc))

head(rows, n) == SubSeq(rows, 1, IF Len(rows) < n THEN Len(rows) ELSE n)

nlargest_first_rows(n, rows) == head(rows, n)
\* DataFrame.nlargest(n, 'keeper_value'), keep='first': the rows with a value
\* in descending order, ties in their original order, then the NaN rows
nlargest(n, rows) ==
    head(sort_desc(SelectSeq(rows, LAMBDA r : notna(r.keeper_value)), <<>>)
            \o SelectSeq(rows, LAMBDA r : ~notna(r.keeper_value)),
         n)

-----------------------------------------------------------------------------
(* Keeper-status mutator, src/app.py update_keeper *)

matching_players(picks, player_name) ==
    SelectSeq(picks, LAMBDA pick : contains(lower(player_name), lower(pick.player_name)))

\* index of the first pick the update loop stops at, 0 when there is none
RECURSIVE first_index(_, _, _)
first_index(picks, player, i) ==
    IF i > Len(picks) THEN 0
    ELSE IF picks[i].player_name = player.player_name /\ picks[i].team_id = player.team_id
         THEN i
         ELSE first_index(picks, player, i + 1)

set_keeper_status_by_team(picks, player, new_status) ==
    [i \in 1..Len(picks) |->
        IF picks[i].team_id = player.team_id
        THEN [picks[i] EXCEPT !.keeper_status = new_status]
        ELSE picks[i]]
\* for pick in draft_picks: if same name and team: set keeper_status; break
set_keeper_status(picks, player, new_status) ==
    LET k == first_index(picks, player, 1)
    IN  [i \in 1..Len(picks) |->
            IF i = k THEN [picks[i] EXCEPT !.keeper_status = new_status]
            ELSE picks[i]]

update_outcome_first_match(draft_data, typed) ==
    LET player_name == strip(typed)
        matches     == matching_players(draft_data.draft_picks, player_name)
    IN  IF player_name = <<>> THEN "name_required"
        ELSE IF ~draft_data.exists THEN "file_not_found"
        ELSE IF ~draft_data.wellformed THEN "error"
        ELSE IF matches = <<>> THEN "not_found"
        ELSE "updated"
\* which branch of update_keeper the typed name takes
update_outcome(draft_data, typed) ==
    LET player_name == strip(typed)
        matches     == matching_players(draft_data.draft_picks, player_name)
    IN  IF player_name = <<>> THEN "name_required"
        ELSE IF ~draft_data.exists THEN "file_not_found"
        ELSE IF ~draft_data.wellformed THEN "error"
        ELSE IF matches = <<>> THEN "not_found"
        ELSE IF Len(matches) > 1 THEN "ambiguous"
        ELSE "updated"

-----------------------------------------------------------------------------
(* Inputs *)

Al   == <<"A", "l">>
Ale  == <<"A", "l", "e">>
Bo   == <<"B", "o">>
Cy   == <<"C", "y">>

Teams ==
    << [team_id |-> 1, team_name |-> "T1", manager |-> "m1"],
       [team_id |-> 2, team_name |-> "T2", manager |-> "m2"] >>

DraftInfo == [total_teams |-> 2, total_rounds |-> 8, draft_type |-> "snake"]

Pick(name, team_id, team, round, overall, keeper, eligible, waiver) ==
    [player_name |-> name, team_id |-> team_id, drafting_team |-> team,
     round |-> round, overall_pick |-> overall, keeper_status |-> keeper,
     keeper_eligible_2025 |-> eligible, waiver_pickup |-> waiver]

\* "TX" is a drafting team that is not in Teams
PickPool ==
    { Pick(Al,            1, "T1", Some(1), Some(1), FALSE, None,        None),
      Pick(Ale,           2, "T2", Some(8), Some(3), TRUE,  Some(FALSE), Some(TRUE)),
      Pick(Bo,            1, "T1", Some(3), Some(2), FALSE, Some(TRUE),  Some(FALSE)),
      Pick(<<" ">> \o Cy, 3, "TX", None,    None,    FALSE, None,        None) }

Row(name, rk, pos) == [PLAYER_NAME |-> name, RK |-> rk, POS |-> pos]

\* the rankings export, listed by rank
RowList ==
    << Row(Bo,            Some(1),  Some(<<"K", "1">>)),
       Row(Ale,           Some(12), Some(<<"R", "B", "1">>)),
       Row(Al,            Some(13), Some(<<"W", "R", "1">>)),
       Row(Al \o <<" ">>, Some(25), Some(<<"Q", "B", "2">>)),
       Row(Bo \o <<" ">>, Some(36), Some(<<"D", "S", "T", "1">>)),
       Row(Cy,            Some(37), None),
       Row(Cy,            None,     Some(<<"T", "E", "2">>)) >>

\* the sequences of at most n distinct elements of S
InjSeqs(S, n) ==
    { s \in UNION { [1..k -> S] : k \in 0..n } :
        \A i, j \in 1..Len(s) : i # j => s[i] # s[j] }

\* the rows of list at the positions of I, in the list's order
RECURSIVE pick_rows(_, _, _)
pick_rows(list, I, i) ==
    IF i > Len(list) THEN <<>>
    ELSE (IF i \in I THEN <<list[i]>> ELSE <<>>) \o pick_rows(list, I, i + 1)

SubLists(list, n) ==
    { pick_rows(list, I, 1) : I \in { J \in SUBSET (1..Len(list)) : Cardinality(J) <= n } }

DraftFile(exists, wellformed, picks) ==
    [exists |-> exists, wellformed |-> wellformed, draft_info |-> DraftInfo,
     teams |-> Teams, draft_picks |-> picks]

FantasyFile(exists, wellformed, rows) ==
    [exists |-> exists, wellformed |-> wellformed, rows |-> rows]

\* content of a file that cannot be read or decoded: what a reader that
\* ignored the failure would see
SamplePicks == << CHOOSE p \in PickPool : p.player_name = Ale >>
SampleRows == << RowList[2] >>

DraftSources ==
    { DraftFile(TRUE, TRUE, picks) : picks \in InjSeqs(PickPool, MaxPicks) }
      \cup { DraftFile(FALSE, TRUE, SamplePicks), DraftFile(TRUE, FALSE, SamplePicks) }

FantasySources ==
    { FantasyFile(TRUE, TRUE, rows) : rows \in SubLists(RowList, MaxRows) }
      \cup { FantasyFile(FALSE, TRUE, SampleRows), FantasyFile(TRUE, FALSE, SampleRows) }

ManagerNames == {"m1", "m2", "TX"}

TypedNames ==
    { <<"a", "l">>, <<" ", "A", "L", "E", " ">>, <<"c", "y">>, <<"e">>,
      <<"z">>, <<" ", " ">> }

\* invocations of update_keeper running side by side: where each one stands,
\* the name typed into it, the draft_data it loaded, the pick it matched
\* (pick: none or one, as it was loaded), the outcome it printed, and how
\* many writes of the file had been made when it read and when it wrote
Procs == {1, 2}

Invocation(pc, typed, draft_data, pick, outcome, read_at, wrote_at) ==
    [pc |-> pc, typed |-> typed, draft_data |-> draft_data, pick |-> pick,
     outcome |-> outcome, read_at |-> read_at, wrote_at |-> wrote_at]

NotStarted ==
    Invocation("start", <<>>, DraftFile(FALSE, TRUE, <<>>), None, "none", 0, 0)

NoInvocations == [p \in Procs |-> NotStarted]

\* the whole program on the full rankings export
Init ==
    /\ draft_results \in DraftSources
    /\ fantasy_pros \in { FantasyFile(TRUE, TRUE, RowList),
                          FantasyFile(FALSE, TRUE, SampleRows) }
    /\ resp = NoResponse
    /\ wrote = FALSE
    /\ procs = NoInvocations

\* the transform and its readers on every pair of sources
InitTransform ==
    /\ draft_results \in DraftSources
    /\ fantasy_pros \in FantasySources
    /\ resp = NoResponse
    /\ wrote = FALSE
    /\ procs = NoInvocations

\* Inputs of the selector: MaxSel picks, pick i ranked 12 * i, each in one of
\* four shapes
Digits == <<"1", "2", "3", "4", "5", "6", "7", "8", "9">>

SelName(i) == <<"P", Digits[i]>>

SelShapes == {"round1", "round3", "noround", "out"}

SelPick(i, shape) ==
    Pick(SelName(i),
         IF shape = "out" /\ i % 2 = 1 THEN 2 ELSE 1,
         IF shape = "out" /\ i % 2 = 1 THEN "T2" ELSE "T1",
         CASE shape = "round3" -> Some(3) [] shape = "noround" -> None [] OTHER -> Some(1),
         Some(i),
         FALSE,
         IF shape = "out" /\ i % 2 = 0 THEN Some(FALSE) ELSE None,
         None)

SelRows == [i \in 1..MaxSel |-> Row(SelName(i), Some(LeagueSize * i), Some(<<"W", "R", "1">>))]

InitSelector ==
    /\ draft_results \in
          { DraftFile(TRUE, TRUE, [i \in 1..MaxSel |-> SelPick(i, shape[i])]) :
                shape \in [1..MaxSel -> SelShapes] }
    /\ fantasy_pros = FantasyFile(TRUE, TRUE, SelRows)
    /\ resp = NoResponse
    /\ wrote = FALSE
    /\ procs = NoInvocations

-----------------------------------------------------------------------------
(* Handlers of src/app.py *)

Reads == /\ UNCHANGED <<draft_results, fantasy_pros, procs>>
         /\ wrote' = FALSE

\* flask keeper-analysis: the report loop reads keeper['2024_team'], a column
\* the frame does not have, so a frame holding a keeper ends in the except branch
keeper_analysis ==
    LET df == create_keeper_analysis_dataframe(draft_results, fantasy_pros)
    IN  /\ resp' = IF df.is_none
                   THEN Response("keeper_analysis", "console", "failed", 0, <<>>, {})
                   ELSE IF \E i \in 1..Len(df.rows) : df.rows[i].keeper_status = TRUE
                   THEN Response("keeper_analysis", "console", "error", 0, <<>>, {})
                   ELSE Response("keeper_analysis", "console", "report", 0, <<>>, {})
        /\ Reads

\* the page built from the picks as they were before any toggle
keeper_analysis_web_cached ==
    LET loaded == [draft_results EXCEPT !.draft_picks =
                      [k \in 1..Len(draft_results.draft_picks) |->
                          CHOOSE p \in PickPool :
                              p.player_name = draft_results.draft_picks[k].player_name]]
        df == create_keeper_analysis_dataframe(loaded, fantasy_pros)
    IN  /\ resp' = IF df.is_none
                   THEN Response("keeper_analysis_web", "error.html", "error", 200, <<>>, {})
                   ELSE Response("keeper_analysis_web", "keeper_analysis.html", "success",
                                 200, df.rows, unique_managers(df))
        /\ Reads
\* route '/' of src/app.py
keeper_analysis_web ==
    LET df == create_keeper_analysis_dataframe(draft_results, fantasy_pros)
    IN  /\ resp' = IF df.is_none
                   THEN Response("keeper_analysis_web", "error.html", "error", 200, <<>>, {})
                   ELSE Response("keeper_analysis_web", "keeper_analysis.html", "success",
                                 200, df.rows, unique_managers(df))
        /\ Reads

update_keeper(typed) ==
    LET outcome == update_outcome(draft_results, typed)
        matches == matching_players(draft_results.draft_picks, strip(typed))
    IN  /\ resp' = Response("update_keeper", "console", outcome, 0,
                            IF outcome \in {"ambiguous", "updated"} THEN matches ELSE <<>>,
                            {})
        /\ IF outcome = "updated"
           THEN /\ draft_results' =
                      [draft_results EXCEPT !.draft_picks =
                          set_keeper_status(draft_results.draft_picks, matches[1],
                                            ~matches[1].keeper_status)]
                /\ wrote' = TRUE
           ELSE /\ UNCHANGED draft_results
                /\ wrote' = FALSE
        /\ UNCHANGED <<fantasy_pros, procs>>

-----------------------------------------------------------------------------
(* Handlers of src/api/index.py *)

\* route '/keeper-analysis'
keeper_analysis_page ==
    LET df == create_keeper_analysis_dataframe_api(draft_results, fantasy_pros)
    IN  /\ resp' = IF df_empty(df)
                   THEN Response("keeper_analysis_page", "error.html", "error", 200, <<>>, {})
                   ELSE Response("keeper_analysis_page", "keeper_analysis.html", "success",
                                 200, df.rows, unique_managers(df))
        /\ Reads

api_players ==
    LET df == create_keeper_analysis_dataframe_api(draft_results, fantasy_pros)
    IN  /\ resp' = IF df_empty(df)
                   THEN Response("api_players", "json", "error", 404, <<>>, {})
                   ELSE Response("api_players", "json", "success", 200, df.rows, {})
        /\ Reads

api_managers ==
    LET df == create_keeper_analysis_dataframe_api(draft_results, fantasy_pros)
    IN  /\ resp' = IF df_empty(df)
                   THEN Response("api_managers", "json", "error", 404, <<>>, {})
                   ELSE Response("api_managers", "json", "success", 200, <<>>,
                                 unique_managers(df))
        /\ Reads

recommendations_response(df, manager) ==
    LET manager_df == manager_rows(df, manager)
    IN  IF df_empty(df)
        THEN Response("api_keeper_recommendations", "json", "error", 404, <<>>, {manager})
        ELSE IF manager_df = <<>>
        THEN Response("api_keeper_recommendations", "json", "success", 200, <<>>, {manager})
        ELSE IF df.keeper_round_dtype = "object"
        THEN \* float - None raises TypeError: the except branch
             Response("api_keeper_recommendations", "json", "error", 500, <<>>, {manager})
        ELSE Response("api_keeper_recommendations", "json", "success", 200,
                      nlargest(TopN, with_keeper_value(manager_df)), {manager})

api_keeper_recommendations(manager) ==
    /\ resp' = recommendations_response(
                   create_keeper_analysis_dataframe_api(draft_results, fantasy_pros),
                   manager)
    /\ Reads

-----------------------------------------------------------------------------
(* Error handlers at the web boundary *)

ApiPrefix == <<"/", "a", "p", "i", "/">>

\* the url rules of src/app.py
app_routes == {<<"/">>}

\* the fixed url rules of src/api/index.py
index_routes ==
    {<<"/">>,
     <<"/", "k", "e", "e", "p", "e", "r", "-", "a", "n", "a", "l", "y", "s", "i", "s">>,
     <<"/", "a", "p", "i", "/", "p", "l", "a", "y", "e", "r", "s">>,
     <<"/", "a", "p", "i", "/", "m", "a", "n", "a", "g", "e", "r", "s">>}

\* request paths: two that no rule matches, and the rules themselves
RequestPaths ==
    {<<"/", "a", "p", "i", "/", "n", "o", "p", "e">>, <<"/", "n", "o", "p", "e">>}
        \cup index_routes

\* a response of an error handler, with the path of the request it answers
ErrorResponse(op, view, code, path) ==
    Response(op, view, "error", code, <<>>, {}) @@ [path |-> path]

\* src/app.py, errorhandler(404): no rule matches the path
not_found(path) ==
    /\ path \notin app_routes
    /\ resp' = ErrorResponse("not_found", "json", 404, path)
    /\ Reads

\* src/app.py, errorhandler(500): the view of a matched rule raised past its
\* own except branch (render_template failing inside it)
internal_error(path) ==
    /\ path \in app_routes
    /\ resp' = ErrorResponse("internal_error", "json", 500, path)
    /\ Reads

\* src/api/index.py, errorhandler(404): no rule matches the path; the handler
\* registered for the code is found before the one registered for Exception
not_found_error(path) ==
    /\ path \notin index_routes
    /\ resp' = ErrorResponse("not_found_error", "error.html", 404, path)
    /\ Reads

\* src/api/index.py, errorhandler(Exception): the view of a matched rule raised
\* past its own except branch
handle_exception(path) ==
    /\ path \in index_routes
    /\ resp' = ErrorResponse("handle_exception",
                             IF startswith(path, ApiPrefix) THEN "json" ELSE "error.html",
                             500, path)
    /\ Reads

-----------------------------------------------------------------------------

Next ==
    \/ keeper_analysis
    \/ keeper_analysis_web
    \/ \E typed \in TypedNames : update_keeper(typed)
    \/ keeper_analysis_page
    \/ api_players
    \/ api_managers
    \/ \E manager \in ManagerNames : api_keeper_recommendations(manager)

Spec == Init /\ [][Next]_vars

\* requests that end in an error handler of either application
NextBoundary ==
    \/ \E path \in RequestPaths : not_found(path)
    \/ \E path \in RequestPaths : internal_error(path)
    \/ \E path \in RequestPaths : not_found_error(path)
    \/ \E path \in RequestPaths : handle_exception(path)

SpecBoundary == Init /\ [][NextBoundary]_vars

NextTransform ==
    \/ keeper_analysis
    \/ keeper_analysis_web
    \/ keeper_analysis_page
    \/ api_players
    \/ api_managers
    \/ \E manager \in ManagerNames : api_keeper_recommendations(manager)

SpecTransform == InitTransform /\ [][NextTransform]_vars

NextSelector ==
    \/ api_players
    \/ \E manager \in ManagerNames : api_keeper_recommendations(manager)

SpecSelector == InitSelector /\ [][NextSelector]_vars

-----------------------------------------------------------------------------
(* update_keeper, step by step, in invocations running side by side *)

\* writes of the file made so far
writes_made == Cardinality({p \in Procs : procs[p].wrote_at > 0})

\* from input() to the flip made in draft_data: the name is read and
\* trimmed, the file is loaded, the picks are matched; anything but a
\* unique match prints its message and returns
uk_read(p, typed) ==
    LET outcome == update_outcome(draft_results, typed)
        matches == matching_players(draft_results.draft_picks, strip(typed))
    IN  /\ procs[p].pc = "start"
        /\ IF outcome = "updated"
           THEN /\ procs' = [procs EXCEPT ![p] =
                      Invocation("modified", typed,
                                 [draft_results EXCEPT !.draft_picks =
                                     set_keeper_status(draft_results.draft_picks, matches[1],
                                                       ~matches[1].keeper_status)],
                                 Some(matches[1]), "none", writes_made, 0)]
                /\ UNCHANGED resp
           ELSE /\ procs' = [procs EXCEPT ![p] =
                      Invocation("done", typed, draft_results, None, outcome,
                                 writes_made, 0)]
                /\ resp' = Response("update_keeper", "console", outcome, 0,
                                    IF outcome = "ambiguous" THEN matches ELSE <<>>, {})
        /\ wrote' = FALSE
        /\ UNCHANGED <<draft_results, fantasy_pros>>

\* with open(..., 'w'): json.dump(draft_data, f)
written_data_merged(stored, invocation) ==
    [stored EXCEPT !.draft_picks =
        set_keeper_status(stored.draft_picks, Val(invocation.pick),
                          ~Val(invocation.pick).keeper_status)]
\* with open(..., 'w'): json.dump(draft_data, f): the file becomes the
\* draft_data of the invocation, whatever it held
written_data(stored, invocation) == invocation.draft_data

\* the save and the success message; the save is taken as one step
uk_write(p) ==
    /\ procs[p].pc = "modified"
    /\ draft_results' = written_data(draft_results, procs[p])
    /\ procs' = [procs EXCEPT ![p] =
                    [@ EXCEPT !.pc = "done", !.outcome = "updated",
                              !.wrote_at = writes_made + 1]]
    /\ resp' = Response("update_keeper", "console", "updated", 0,
                        <<Val(procs[p].pick)>>, {})
    /\ wrote' = TRUE
    /\ UNCHANGED fantasy_pros

InitRace ==
    /\ draft_results \in DraftSources
    /\ fantasy_pros = FantasyFile(TRUE, TRUE, RowList)
    /\ resp = NoResponse
    /\ wrote = FALSE
    /\ procs = NoInvocations

NextRace ==
    \/ \E p \in Procs : \E typed \in TypedNames : uk_read(p, typed)
    \/ \E p \in Procs : uk_write(p)

SpecRace == InitRace /\ [][NextRace]_vars

-----------------------------------------------------------------------------
(* Properties of the transform's output *)

\* a response that carries the whole output of the transform
IsTransformOutput ==
    /\ resp.op \in {"keeper_analysis_web", "keeper_analysis_page", "api_players"}
    /\ resp.status = "success"

Output == resp.players

\* C1: the output is ordered by overall_pick: of any two records that both
\* have an overall_pick the earlier one's is not larger, and the records
\* without an overall_pick come after all the others.
C1_SortedByOverallPick ==
    IsTransformOutput =>
        \A i, j \in 1..Len(Output) :
            i < j =>
                /\ (notna(Output[i].overall_pick) /\ notna(Output[j].overall_pick)
                        => Val(Output[i].overall_pick) <= Val(Output[j].overall_pick))
                /\ (~notna(Output[i].overall_pick) => ~notna(Output[j].overall_pick))

\* two records come out in the order opposite to the one they are stored in
C1_Witness ==
    /\ IsTransformOutput
    /\ Len(Output) >= 2
    /\ Len(draft_results.draft_picks) >= 2
    /\ notna(Output[1].overall_pick) /\ notna(Output[2].overall_pick)
    /\ Val(Output[1].overall_pick) < Val(Output[2].overall_pick)
    /\ draft_results.draft_picks[1].player_name = Output[2].player_name
    /\ draft_results.draft_picks[2].player_name = Output[1].player_name

StartsWithKOrDST(pos) ==
    /\ notna(pos)
    /\ \/ Val(pos)[1] = "K"
       \/ (Len(Val(pos)) >= 3 /\ Val(pos)[1] = "D" /\ Val(pos)[2] = "S" /\ Val(pos)[3] = "T")

TrimmedNames(rows) == { strip(rows[i].PLAYER_NAME) : i \in 1..Len(rows) }

\* C2: no output record is a kicker or a defense, every output record has a
\* 2025 rank, and the trimmed name of every output record is the trimmed name
\* of a ranking row.
C2_NoKickersDefensesUnranked ==
    IsTransformOutput =>
        \A i \in 1..Len(Output) :
            /\ ~StartsWithKOrDST(Output[i].position_rank_2025)
            /\ notna(Output[i].draft_rank_2025)
            /\ strip(Output[i].player_name) \in TrimmedNames(fantasy_pros.rows)

\* the stored picks hold one with no ranking row and one whose ranking row is
\* a kicker or defense, and neither is in the output, which is not empty
C2_Witness ==
    LET picks == draft_results.draft_picks
        rows  == fantasy_pros.rows
        Gone(p) == \A i \in 1..Len(Output) : Output[i].player_name # p.player_name
    IN  /\ IsTransformOutput
        /\ Len(Output) >= 1
        /\ \E k \in 1..Len(picks) :
              /\ strip(picks[k].player_name) \notin TrimmedNames(rows)
              /\ Gone(picks[k])
        /\ \E k \in 1..Len(picks) : \E n \in 1..Len(rows) :
              /\ strip(picks[k].player_name) = strip(rows[n].PLAYER_NAME)
              /\ StartsWithKOrDST(rows[n].POS)
              /\ Gone(picks[k])

\* C3: keeper_round_2025 is 5 for a waiver pickup whatever its draft round;
\* otherwise one less than the draft round but at least 1; otherwise null.
C3_KeeperRound ==
    IsTransformOutput =>
        \A i \in 1..Len(Output) :
            LET r == Output[i]
            IN  /\ r.waiver_pickup => r.keeper_round_2025 = <<5>>
                /\ (~r.waiver_pickup /\ notna(r.draft_round)) =>
                      r.keeper_round_2025 =
                          << IF Val(r.draft_round) <= 2 THEN 1
                             ELSE Val(r.draft_round) - 1 >>
                /\ (~r.waiver_pickup /\ ~notna(r.draft_round)) =>
                      r.keeper_round_2025 = <<>>

\* a waiver pickup drafted in round 8 and a round-1 pick are both in the output
C3_Witness ==
    /\ IsTransformOutput
    /\ \E i \in 1..Len(Output) :
          /\ Output[i].waiver_pickup /\ Output[i].draft_round = <<8>>
          /\ Output[i].keeper_round_2025 = <<5>>
    /\ \E i \in 1..Len(Output) :
          /\ ~Output[i].waiver_pickup /\ Output[i].draft_round = <<1>>
          /\ Output[i].keeper_round_2025 = <<1>>

\* C4: projected_round_2025 is the round k with 12(k-1) < rank <= 12k.
C4_ProjectedRound ==
    IsTransformOutput =>
        \A i \in 1..Len(Output) :
            LET r == Output[i]
            IN  /\ notna(r.projected_round_2025)
                /\ 12 * (Val(r.projected_round_2025) - 1) < Val(r.draft_rank_2025)
                /\ Val(r.draft_rank_2025) <= 12 * Val(r.projected_round_2025)

\* rank 12 projects to round 1 and rank 13 to round 2 in one output
C4_Witness ==
    /\ IsTransformOutput
    /\ \E i \in 1..Len(Output) :
          Output[i].draft_rank_2025 = <<12>> /\ Output[i].projected_round_2025 = <<1>>
    /\ \E i \in 1..Len(Output) :
          Output[i].draft_rank_2025 = <<13>> /\ Output[i].projected_round_2025 = <<2>>

\* the columns of an output record that come from its DraftPick
DraftSide(r) ==
    << r.player_name, r.manager, r.draft_round, r.overall_pick, r.keeper_status,
       r.keeper_eligible_2025, r.waiver_pickup >>

\* C5: every DraftPick appears at most once in the joined set and so in the
\* output: the output holds no more records of a pick's values than there are
\* stored picks with those values.
C5_EachPickAtMostOnce ==
    IsTransformOutput =>
        \A i \in 1..Len(Output) :
            Cardinality({ j \in 1..Len(Output) : DraftSide(Output[j]) = DraftSide(Output[i]) })
              <= Cardinality({ k \in 1..Len(draft_results.draft_picks) :
                    DraftSide(draft_record(draft_results.teams,
                                           draft_results.draft_picks[k]))
                      = DraftSide(Output[i]) })

-----------------------------------------------------------------------------
(* Properties of the readers *)

SourcesReadable ==
    /\ draft_results.exists /\ draft_results.wellformed
    /\ fantasy_pros.exists /\ fantasy_pros.wellformed

RequestedManager == CHOOSE m \in resp.managers : TRUE

\* C7: with both sources readable and well formed (and at least one stored
\* pick), a manager with no eligible record in the output gets an empty
\* recommendations list with success status.
C7_NoEligibleIsSuccess ==
    (/\ resp.op = "api_keeper_recommendations"
     /\ SourcesReadable
     /\ draft_results.draft_picks # <<>>
     /\ manager_rows(create_keeper_analysis_dataframe_api(draft_results, fantasy_pros),
                     RequestedManager) = <<>>)
        => (resp.status = "success" /\ resp.players = <<>>)

\* the answer that reports unavailable data, per caller
IsDataUnavailable(r) ==
    /\ r.players = <<>>
    /\ CASE r.op = "keeper_analysis"      -> r.status = "failed"
         [] r.op = "keeper_analysis_web"  -> r.view = "error.html"
         [] r.op = "keeper_analysis_page" -> r.view = "error.html"
         [] OTHER -> r.view = "json" /\ r.status = "error" /\ r.code = 404

Readers == {"keeper_analysis", "keeper_analysis_web", "keeper_analysis_page",
            "api_players", "api_managers", "api_keeper_recommendations"}

\* C8: when a source is missing, unreadable or malformed, both transforms
\* yield their failure outcome with no record, and every caller answers with
\* its data-unavailable error.
C8_SourceFailureIsTotal ==
    ~SourcesReadable =>
        /\ create_keeper_analysis_dataframe(draft_results, fantasy_pros) = NoDataFrame
        /\ create_keeper_analysis_dataframe_api(draft_results, fantasy_pros).rows = <<>>
        /\ resp.op \in Readers =>
              IsDataUnavailable(resp) /\ resp.status # "success"

\* the rankings cannot be read while the stored picks are readable, and a
\* caller has answered
C8_Witness ==
    /\ ~fantasy_pros.exists
    /\ draft_results.exists /\ draft_results.wellformed
    /\ Len(draft_results.draft_picks) >= 2
    /\ resp.op = "api_players"
    /\ resp.code = 404

-----------------------------------------------------------------------------
(* Properties of the recommendation selector *)

Recommended == resp.players

TransformOutput ==
    create_keeper_analysis_dataframe_api(draft_results, fantasy_pros).rows

\* a recommendation without its keeper_value column
Base(r) == [f \in (DOMAIN r) \ {"keeper_value"} |-> r[f]]

\* position of a recommendation in the rows of the transform's output, 0 when
\* it is not there
PositionIn(rows, r) ==
    IF \E k \in 1..Len(rows) : rows[k] = Base(r)
    THEN CHOOSE k \in 1..Len(rows) : rows[k] = Base(r)
    ELSE 0

HasValue(r) == notna(r.projected_round_2025) /\ notna(r.keeper_round_2025)
Value(r) == Val(r.projected_round_2025) - Val(r.keeper_round_2025)

\* C6: the selector returns at most 5 records, each a record of the transform's
\* output that is the manager's and eligible, carrying keeper_value =
\* projected round - keeper round, in non-increasing order of keeper_value
\* (records without a value last); no omitted eligible record of the manager
\* has a larger value than a returned one, and records of equal value are in
\* the order of the transform's output.
C6_TopFiveByKeeperValue ==
    resp.op = "api_keeper_recommendations" =>
        LET out == TransformOutput
            rec == Recommended
            pos == [i \in 1..Len(rec) |-> PositionIn(out, rec[i])]
            val == [i \in 1..Len(rec) |-> IF HasValue(rec[i]) THEN <<Value(rec[i])>> ELSE <<>>]
        IN  /\ Len(rec) <= 5
            /\ \A i \in 1..Len(rec) :
                  /\ pos[i] > 0
                  /\ rec[i].manager = RequestedManager
                  /\ rec[i].keeper_eligible_2025 = TRUE
                  /\ rec[i].keeper_value = val[i]
            /\ \A i, j \in 1..Len(rec) :
                  i < j =>
                      /\ pos[i] # pos[j]
                      /\ (val[i] # <<>> /\ val[j] # <<>>) => val[i][1] >= val[j][1]
                      /\ val[i] = <<>> => val[j] = <<>>
                      /\ (val[i] # <<>> /\ val[i] = val[j]) => pos[i] < pos[j]
            /\ \A k \in 1..Len(out) :
                  (/\ out[k].manager = RequestedManager
                   /\ out[k].keeper_eligible_2025 = TRUE
                   /\ HasValue(out[k])
                   /\ \A i \in 1..Len(rec) : pos[i] # k
                   /\ resp.status = "success")
                      => \A i \in 1..Len(rec) :
                            val[i] # <<>> /\ val[i][1] >= Value(out[k])

\* five records are returned and an eligible one of the manager is left out;
\* two returned records tie, and two are in the opposite order of the output
C6_Witness ==
    /\ resp.op = "api_keeper_recommendations"
    /\ resp.status = "success"
    /\ Len(Recommended) = 5
    /\ LET out == TransformOutput
           pos == [i \in 1..5 |-> PositionIn(out, Recommended[i])]
       IN  /\ Len(manager_rows([rows |-> out], RequestedManager)) > 5
           /\ \E i \in 1..4 : Recommended[i].keeper_value = Recommended[i + 1].keeper_value
           /\ \E i \in 1..4 : pos[i] > pos[i + 1]

-----------------------------------------------------------------------------
(* Properties of the keeper-status mutator *)

\* the stored picks whose name holds the entered name, letter case ignored
MatchedPicks(typed) ==
    { k \in 1..Len(draft_results.draft_picks) :
        \E i \in 0..Len(draft_results.draft_picks[k].player_name) :
            /\ i + Len(strip(typed)) <= Len(draft_results.draft_picks[k].player_name)
            /\ \A c \in 1..Len(strip(typed)) :
                  lower_char(draft_results.draft_picks[k].player_name[i + c])
                    = lower_char(strip(typed)[c]) }

StoredReadable == draft_results.exists /\ draft_results.wellformed

OtherFields(pick) == [f \in (DOMAIN pick) \ {"keeper_status"} |-> pick[f]]

\* C9: when the entered name is in exactly one pick's name, update_keeper
\* negates that pick's keeper_status and writes the record back; every other
\* pick, the other fields of the matched pick, the teams and draft_info are
\* as they were.
FlipsExactlyTheMatch ==
    \A typed \in TypedNames :
        (/\ update_keeper(typed)
         /\ StoredReadable
         /\ strip(typed) # <<>>
         /\ Cardinality(MatchedPicks(typed)) = 1)
            => LET k   == CHOOSE m \in MatchedPicks(typed) : TRUE
                   old == draft_results.draft_picks
                   new == draft_results'.draft_picks
               IN  /\ wrote'
                   /\ resp'.status = "updated"
                   /\ Len(new) = Len(old)
                   /\ new[k].keeper_status = ~old[k].keeper_status
                   /\ OtherFields(new[k]) = OtherFields(old[k])
                   /\ \A i \in 1..Len(old) : i # k => new[i] = old[i]
                   /\ draft_results'.teams = draft_results.teams
                   /\ draft_results'.draft_info = draft_results.draft_info
                   /\ draft_results'.exists /\ draft_results'.wellformed
                   /\ fantasy_pros' = fantasy_pros

C9_UniqueMatchFlipsOnlyThatPick == [][FlipsExactlyTheMatch]_vars

\* a toggle was written to a file of several picks, two of them of one team
C9_Witness ==
    /\ resp.op = "update_keeper"
    /\ resp.status = "updated"
    /\ wrote
    /\ Len(resp.players) = 1
    /\ \E i, j \in 1..Len(draft_results.draft_picks) :
          /\ i # j
          /\ draft_results.draft_picks[i].team_id = draft_results.draft_picks[j].team_id
          /\ draft_results.draft_picks[i].player_name = resp.players[1].player_name
          /\ draft_results.draft_picks[i].keeper_status = ~resp.players[1].keeper_status

\* C10: when the entered name is empty, or is in no pick's name, or is in the
\* names of several picks, update_keeper reports it (name required, not found,
\* or the ambiguous set) and neither changes nor writes the stored data.
LeavesStorageOnMiss ==
    \A typed \in TypedNames :
        (/\ update_keeper(typed)
         /\ \/ strip(typed) = <<>>
            \/ Cardinality(MatchedPicks(typed)) # 1)
            => /\ draft_results' = draft_results
               /\ ~wrote'
               /\ strip(typed) = <<>> => resp'.status = "name_required"
               /\ (strip(typed) # <<>> /\ StoredReadable) =>
                     IF MatchedPicks(typed) = {}
                     THEN resp'.status = "not_found"
                     ELSE /\ resp'.status = "ambiguous"
                          /\ Len(resp'.players) = Cardinality(MatchedPicks(typed))
                          /\ \A k \in MatchedPicks(typed) :
                                \E i \in 1..Len(resp'.players) :
                                    resp'.players[i] = draft_results.draft_picks[k]

C10_MissLeavesStorageUntouched == [][LeavesStorageOnMiss]_vars

\* an ambiguous name was reported with its matches, after an earlier toggle
C10_Witness ==
    /\ resp.op = "update_keeper"
    /\ resp.status = "ambiguous"
    /\ Len(resp.players) >= 2
    /\ ~wrote
    /\ draft_results \notin DraftSources
-----------------------------------------------------------------------------
(* Properties relating the two entry points and the stored teams *)

\* C14: on readable, well-formed sources the transform of src/app.py and the
\* transform of src/api/index.py return the same records in the same order;
\* with at least one stored pick both return a frame, and the frames are equal.
C14_TransformsAgree ==
    SourcesReadable =>
        LET cli == create_keeper_analysis_dataframe(draft_results, fantasy_pros)
            web == create_keeper_analysis_dataframe_api(draft_results, fantasy_pros)
        IN  /\ cli.rows = web.rows
            /\ draft_results.draft_picks # <<>> => cli = web

\* the page of the web entry point shows several records, a round-1 pick
\* among them, and they are the records the CLI entry point's transform returns
C14_Witness ==
    /\ SourcesReadable
    /\ resp.op = "keeper_analysis_page"
    /\ resp.status = "success"
    /\ Len(resp.players) >= 2
    /\ \E i \in 1..Len(resp.players) : resp.players[i].draft_round = <<1>>
    /\ resp.players = create_keeper_analysis_dataframe(draft_results, fantasy_pros).rows

\* the managers of the stored teams named name
ManagersOfTeam(name) ==
    { draft_results.teams[t].manager :
        t \in { u \in 1..Len(draft_results.teams) :
                  draft_results.teams[u].team_name = name } }

\* C15: the manager of an output record is the manager of the team whose
\* team_name is the pick's drafting_team, and the drafting_team itself when no
\* team has that name; a pick of an unknown team does not make the transform
\* fail.
C15_ManagerOfDraftingTeam ==
    /\ IsTransformOutput =>
          \A i \in 1..Len(Output) :
              \E k \in 1..Len(draft_results.draft_picks) :
                  LET pick == draft_results.draft_picks[k]
                  IN  /\ pick.player_name = Output[i].player_name
                      /\ pick.overall_pick = Output[i].overall_pick
                      /\ IF ManagersOfTeam(pick.drafting_team) = {}
                         THEN Output[i].manager = pick.drafting_team
                         ELSE Output[i].manager \in ManagersOfTeam(pick.drafting_team)
    /\ (SourcesReadable /\ draft_results.draft_picks # <<>>) =>
          /\ ~create_keeper_analysis_dataframe(draft_results, fantasy_pros).is_none
          /\ Len(create_keeper_analysis_dataframe_api(draft_results, fantasy_pros).rows)
               >= Cardinality({ k \in 1..Len(draft_results.draft_picks) :
                     /\ ManagersOfTeam(draft_results.draft_picks[k].drafting_team) = {}
                     /\ \E n \in 1..Len(fantasy_pros.rows) :
                           /\ strip(fantasy_pros.rows[n].PLAYER_NAME)
                                = strip(draft_results.draft_picks[k].player_name)
                           /\ notna(fantasy_pros.rows[n].RK)
                           /\ ~StartsWithKOrDST(fantasy_pros.rows[n].POS) })

\* the output holds a record of a team that is not stored, under the team's
\* name, next to a record under a stored team's manager
C15_Witness ==
    /\ IsTransformOutput
    /\ \E i \in 1..Len(Output) :
          /\ Output[i].manager = "TX"
          /\ \A t \in 1..Len(draft_results.teams) : draft_results.teams[t].team_name # "TX"
    /\ \E i \in 1..Len(Output) : Output[i].manager = "m1"
-----------------------------------------------------------------------------
(* Properties of reading after writing *)

\* C13: nothing derived is kept between invocations: whatever toggles and
\* failed attempts came before, every record of a transform's output carries
\* the keeper_status that storage holds for its pick.
C13_OutputReflectsStorage ==
    IsTransformOutput =>
        \A i \in 1..Len(Output) :
            /\ \E k \in 1..Len(draft_results.draft_picks) :
                  draft_results.draft_picks[k].player_name = Output[i].player_name
            /\ \A k \in 1..Len(draft_results.draft_picks) :
                  draft_results.draft_picks[k].player_name = Output[i].player_name
                      => Output[i].keeper_status = draft_results.draft_picks[k].keeper_status

\* a transform ran after toggles: one output record's status is not the one
\* its pick started with, another's is
C13_Witness ==
    /\ IsTransformOutput
    /\ \E i \in 1..Len(Output) : \E p \in PickPool :
          /\ p.player_name = Output[i].player_name
          /\ p.keeper_status # Output[i].keeper_status
    /\ \E i \in 1..Len(Output) : \E p \in PickPool :
          /\ p.player_name = Output[i].player_name
          /\ p.keeper_status = Output[i].keeper_status
-----------------------------------------------------------------------------
(* Properties of the error handlers *)

\* a response produced by one of the error handlers
IsBoundaryError ==
    resp.op \in {"not_found", "internal_error", "not_found_error", "handle_exception"}

\* C12: a request that matches no rule, or whose view raises, is answered with
\* the JSON error body when its path starts with /api/ and with the HTML
\* error view otherwise, the code being 404 for the former and 500 for the latter.
C12_ErrorViewFollowsPath ==
    IsBoundaryError =>
        /\ resp.status = "error"
        /\ resp.view = IF startswith(resp.path, ApiPrefix) THEN "json" ELSE "error.html"
        /\ resp.code = IF resp.op \in {"not_found", "not_found_error"} THEN 404 ELSE 500
-----------------------------------------------------------------------------
(* Properties of invocations of update_keeper running side by side *)

\* the stored keeper_status of the pick an invocation matched
StoredStatus(pick) ==
    draft_results.draft_picks[first_index(draft_results.draft_picks, pick, 1)].keeper_status

\* p and q each matched one pick, not the same one, both loaded the file
\* before any write of it, both have finished, and q wrote last
Raced(p, q) ==
    /\ p # q
    /\ procs[p].pc = "done" /\ procs[q].pc = "done"
    /\ notna(procs[p].pick) /\ notna(procs[q].pick)
    /\ Val(procs[p].pick).player_name # Val(procs[q].pick).player_name
    /\ procs[p].read_at = 0 /\ procs[q].read_at = 0
    /\ procs[q].wrote_at > procs[p].wrote_at

\* C11: when two invocations that each match one pick, not the same one,
\* both load the file before either saves it, both print success, and the
\* file ends as the last writer's draft_data: its flip is stored, the other
\* invocation's flip is not.
C11_LastWriterWins ==
    \A p, q \in Procs :
        Raced(p, q) =>
            /\ procs[p].outcome = "updated" /\ procs[q].outcome = "updated"
            /\ draft_results = procs[q].draft_data
            /\ StoredStatus(Val(procs[q].pick)) = ~Val(procs[q].pick).keeper_status
            /\ StoredStatus(Val(procs[p].pick)) = Val(procs[p].pick).keeper_status

\* two invocations raced and the second save has just been made
C11_Witness ==
    /\ wrote
    /\ \E p, q \in Procs :
          /\ Raced(p, q)
          /\ resp.status = "updated"
          /\ resp.players = <<Val(procs[q].pick)>>
====
